---------------------------- MODULE Spec2Model ----------------------------
(***************************************************************************)
(* Casbin policy adapter for Cloud Firestore (adapter.go, model.go,        *)
(* Config.go).  The collection is a set of documents; the adapter encodes  *)
(* policy rules into flat CasbinRule documents, loads them back into the   *)
(* caller's model, and replaces / adds / removes them in transactions.     *)
(* The model-definition document "conf" lives in the same collection.      *)
(*                                                                         *)
(* Firestore itself is outside the repository.  What the adapter relies on *)
(* is modelled as the client library documents it: a query returns the     *)
(* documents that have the filtered fields and satisfy every filter, read  *)
(* at one snapshot; writes made through a Transaction are buffered and     *)
(* applied together at commit, or not at all when the function returns an  *)
(* error or the commit fails; NewDoc yields an identifier no document of   *)
(* the collection has.                                                     *)
(***************************************************************************)
EXTENDS Integers, Sequences, FiniteSets, TLC

VARIABLES
    docs,    \* the collection: document id -> document (a record of fields)
    model,   \* the caller's model.Model: section -> policy type -> Policy
    call,    \* the adapter call made last: operation, arguments, result
    prev,    \* the call made before it
    line,    \* the CasbinRule value held by the codec
    tx,      \* the running transaction of a mutating call (concurrent runs)
    ld       \* the running LoadPolicy call (concurrent runs)

vars == <<docs, model, call, prev, line, tx, ld>>

----------------------------------------------------------------------------
(* Bounds of the model *)

\* documents in the collection before the first call
MaxDocs == 2
\* rules in the model handed to SavePolicy
MaxRules == 2
\* values in fieldValues of RemoveFilteredPolicy
MaxFilterLen == 2
\* fields of a rule handed to the codec
MaxRuleLen == 6

----------------------------------------------------------------------------
(* Policy types, sections and the caller's model *)

\* policy types of the model definition; never empty (loadPolicyLine takes key[:1])
PTypes == {"p", "p2", "g"}

Sections == {"p", "g"}

\* key[:1], the section of a policy type
FirstChar == ("p" :> "p") @@ ("p2" :> "p") @@ ("g" :> "g")

\* the policy types each section of the model definition declares, in a fixed order
ModelKeys == [p |-> <<"p", "p2">>, g |-> <<"g">>]

Range(s) == {s[i] : i \in DOMAIN s}

ModelDef == [sec \in Sections |-> Range(ModelKeys[sec])]

\* a model with no policy rule (after ClearPolicy)
EmptyModel == [sec \in Sections |-> [key \in ModelDef[sec] |-> <<>>]]

\* all sequences over S of length 0..n
RECURSIVE SeqsUpTo(_, _)
SeqsUpTo(S, n) ==
    IF n = 0 THEN {<<>>}
    ELSE LET shorter == SeqsUpTo(S, n - 1)
         IN  shorter \cup {Append(s, x) : s \in {t \in shorter : Len(t) = n - 1}, x \in S}

----------------------------------------------------------------------------
(* Record codec *)

\* CasbinRule with every field empty
ZeroLine == [p_type |-> "", v0 |-> "", v1 |-> "", v2 |-> "", v3 |-> "", v4 |-> "", v5 |-> ""]

\* a plausible slip: the sixth field is not stored
savePolicyLineNoV5(ptype, rule) ==
    [p_type |-> ptype,
     v0 |-> IF Len(rule) > 0 THEN rule[1] ELSE "",
     v1 |-> IF Len(rule) > 1 THEN rule[2] ELSE "",
     v2 |-> IF Len(rule) > 2 THEN rule[3] ELSE "",
     v3 |-> IF Len(rule) > 3 THEN rule[4] ELSE "",
     v4 |-> IF Len(rule) > 4 THEN rule[5] ELSE "",
     v5 |-> ""]

savePolicyLine(ptype, rule) ==
    [p_type |-> ptype,
     v0 |-> IF Len(rule) > 0 THEN rule[1] ELSE "",
     v1 |-> IF Len(rule) > 1 THEN rule[2] ELSE "",
     v2 |-> IF Len(rule) > 2 THEN rule[3] ELSE "",
     v3 |-> IF Len(rule) > 3 THEN rule[4] ELSE "",
     v4 |-> IF Len(rule) > 4 THEN rule[5] ELSE "",
     v5 |-> IF Len(rule) > 5 THEN rule[6] ELSE ""]

\* a plausible slip: every field is appended, empty or not
TokensPadded(l) == <<l.v0, l.v1, l.v2, l.v3, l.v4, l.v5>>

\* the tokens loadPolicyLine collects: the fields up to the first empty one
Tokens(l) ==
    IF l.v0 = "" THEN <<>>
    ELSE IF l.v1 = "" THEN <<l.v0>>
    ELSE IF l.v2 = "" THEN <<l.v0, l.v1>>
    ELSE IF l.v3 = "" THEN <<l.v0, l.v1, l.v2>>
    ELSE IF l.v4 = "" THEN <<l.v0, l.v1, l.v2, l.v3>>
    ELSE IF l.v5 = "" THEN <<l.v0, l.v1, l.v2, l.v3, l.v4>>
    ELSE <<l.v0, l.v1, l.v2, l.v3, l.v4, l.v5>>

loadPolicyLine(l, mdl) ==
    LET key == l.p_type
        sec == FirstChar[key]
    IN  [mdl EXCEPT ![sec][key] = Append(@, Tokens(l))]

----------------------------------------------------------------------------
(* Calls *)

Call(op, ptype, rule, m, fieldIndex, fieldValues, text, err, docs0, model0, read) ==
    [op |-> op, ptype |-> ptype, rule |-> rule, m |-> m, fieldIndex |-> fieldIndex,
     fieldValues |-> fieldValues, text |-> text, err |-> err, docs0 |-> docs0,
     model0 |-> model0, read |-> read]

NoDocs == [id \in {} |-> ZeroLine]

NoCall == Call("none", "", <<>>, EmptyModel, 0, <<>>, "", "nil", NoDocs, EmptyModel, 0)

\* no transaction is running: pc, the documents still to delete, the lines
\* still to create, the deletes and creates buffered so far
NoTx == [pc |-> "none", iter |-> {}, lines |-> <<>>, dels |-> {}, creates |-> <<>>]

\* no LoadPolicy is running: pc, the documents the iterator has still to
\* deliver, the snapshot it reads, the rules read, and where the
\* transaction stood when the query was made
NoLoad == [pc |-> "none", left |-> {}, snap |-> NoDocs, rules |-> <<>>, at |-> "none", writes |-> 0]

----------------------------------------------------------------------------
(* The codec alone: a type and a rule are encoded, then decoded into an    *)
(* empty model.                                                            *)

CodecValues == {"", "alice", "data1"}

CodecRules == SeqsUpTo(CodecValues, MaxRuleLen)

InitCodec ==
    /\ docs = NoDocs
    /\ model = EmptyModel
    /\ \E t \in PTypes, r \in CodecRules :
           call = [NoCall EXCEPT !.op = "rule", !.ptype = t, !.rule = r]
    /\ prev = NoCall
    /\ line = ZeroLine
    /\ tx = NoTx
    /\ ld = NoLoad

Encode ==
    /\ call.op = "rule"
    /\ line' = savePolicyLine(call.ptype, call.rule)
    /\ call' = [call EXCEPT !.op = "encoded"]
    /\ UNCHANGED <<docs, model, prev, tx, ld>>

Decode ==
    /\ call.op = "encoded"
    /\ model' = loadPolicyLine(line, model)
    /\ call' = [call EXCEPT !.op = "decoded", !.model0 = model]
    /\ UNCHANGED <<docs, prev, line, tx, ld>>

NextCodec == Encode \/ Decode

SpecCodec == InitCodec /\ [][NextCodec]_vars

NonEmptyFields(r) == \A i \in DOMAIN r : r[i] # ""

\* C6: for every policy type t and every rule r of 0..6 non-empty fields,
\* decoding encode(t, r) appends under section t[:1] and key t a rule equal
\* to r (same length, same fields in order) and touches no other policy list;
\* the zero-length rule decodes to a zero-length rule.
C6_CodecRoundTrip ==
    (call.op = "decoded" /\ Len(call.rule) <= 6 /\ NonEmptyFields(call.rule)) =>
        /\ model[FirstChar[call.ptype]][call.ptype] = <<call.rule>>
        /\ Len(model[FirstChar[call.ptype]][call.ptype][1]) = Len(call.rule)
        /\ \A sec \in Sections : \A key \in ModelDef[sec] :
               key # call.ptype => model[sec][key] = <<>>

\* a six-field rule of type p2 has been encoded and decoded
C6_Witness ==
    /\ call.op = "decoded"
    /\ call.ptype = "p2"
    /\ Len(call.rule) = 6
    /\ NonEmptyFields(call.rule)
    /\ model["p"]["p2"] = <<call.rule>>

\* the zero-length rule has been encoded and decoded
C6_WitnessEmpty ==
    /\ call.op = "decoded"
    /\ call.rule = <<>>
    /\ model[FirstChar[call.ptype]][call.ptype] = << <<>> >>

----------------------------------------------------------------------------
(* The collection and its queries *)

\* the identifier of the model-definition document, Doc("conf")
ConfId == 0

\* the CasbinModelConf document
ConfDoc(text) == [text |-> text]

\* Collection(a.collection).Where("p_type", ">", ""): the documents that have
\* a p_type field holding a non-empty string
newQuery(d) == {id \in DOMAIN d : "p_type" \in DOMAIN d[id] /\ d[id].p_type # ""}

\* q.Where(field, "==", value) for every <<field, value>> of constraints
Where(d, ids, constraints) ==
    {id \in ids : \A c \in constraints : c[1] \in DOMAIN d[id] /\ d[id][c[1]] = c[2]}

Max(S) == CHOOSE x \in S : \A y \in S : y <= x

\* the collection once a transaction that deleted ids and created lines commits;
\* NewDoc gives each created document an identifier the collection did not hold
Commit(d, ids, lines) ==
    LET base == Max(DOMAIN d \cup {ConfId})
        new  == {base + i : i \in 1..Len(lines)}
    IN  [id \in (DOMAIN d \ ids) \cup new |->
            IF id \in new THEN lines[id - base] ELSE d[id]]

\* the orders in which a query's iterator may deliver the documents ids
Orders(ids) ==
    {o \in [1..Cardinality(ids) -> ids] : \A i, j \in DOMAIN o : i # j => o[i] # o[j]}

----------------------------------------------------------------------------
(* Inputs: the rules of the repository's tests, with a five-field prefix of *)
(* a six-field rule, a rule with an empty field and the zero-length rule.  *)

RuleAlice == <<"alice", "data1", "read">>
RuleBob == <<"bob", "data2", "write">>
RuleGroup == <<"alice", "data2_admin">>
RuleService == <<"domain1", "alice", "data3", "read", "accept", "service1">>
RuleNoService == <<"domain1", "alice", "data3", "read", "accept">>
RuleGap == <<"alice", "", "read">>

\* rules handed to AddPolicy and RemovePolicy, under every policy type
InputRules == {RuleAlice, RuleBob, RuleGap, RuleNoService, RuleService, RuleGroup, <<>>}

\* <<policy type, rule>> pairs of the models handed to SavePolicy
InputLines ==
    << <<"p", RuleAlice>>, <<"p", RuleGap>>, <<"p2", RuleNoService>>,
       <<"p2", RuleService>>, <<"g", RuleGroup>>, <<"g", <<>> >> >>

\* documents found in the collection before the first call
PriorLines ==
    << savePolicyLine("p", RuleAlice), savePolicyLine("p2", RuleService),
       savePolicyLine("p", RuleGap) >>

\* nondecreasing index sequences of length 0..k over 1..n: one per multiset
NonDecreasing(n, k) ==
    {s \in SeqsUpTo(1..n, k) : \A i \in 1..(Len(s) - 1) : s[i] <= s[i + 1]}

\* texts of model-definition files; the first two parse as a model definition
ValidTexts == {"rbac_model.conf", "rbac_tenant_service.conf"}
Texts == ValidTexts \cup {"rbac_policy.csv"}

\* the collections holding up to MaxDocs of the documents lines, with and
\* without the model-definition document
Stores(lines) ==
    {[id \in 1..Len(s) |-> lines[s[id]]] : s \in NonDecreasing(Len(lines), MaxDocs)}
    \cup
    {[id \in 0..Len(s) |-> IF id = ConfId THEN ConfDoc("rbac_model.conf") ELSE lines[s[id]]] :
        s \in NonDecreasing(Len(lines), MaxDocs)}

PriorStores == Stores(PriorLines)

RECURSIVE ModelOf(_)
\* the model holding the rules of the <<type, rule>> pairs ls, in that order
ModelOf(ls) ==
    IF ls = <<>> THEN EmptyModel
    ELSE LET rest == ModelOf(SubSeq(ls, 1, Len(ls) - 1))
             l    == ls[Len(ls)]
         IN  [rest EXCEPT ![FirstChar[l[1]]][l[1]] = Append(@, l[2])]

InputModels ==
    {ModelOf([i \in DOMAIN s |-> InputLines[s[i]]]) : s \in NonDecreasing(Len(InputLines), MaxRules)}

----------------------------------------------------------------------------
(* The adapter's operations, each call run to its end *)

RECURSIVE LinesOfKeys(_, _, _)
\* savePolicyLine of every rule of every policy type keys of section sec
LinesOfKeys(m, sec, keys) ==
    IF keys = <<>> THEN <<>>
    ELSE [i \in DOMAIN m[sec][keys[1]] |-> savePolicyLine(keys[1], m[sec][keys[1]][i])]
         \o LinesOfKeys(m, sec, Tail(keys))

\* the lines SavePolicy builds: section p, then section g
SavePolicyLines(m) == LinesOfKeys(m, "p", ModelKeys["p"]) \o LinesOfKeys(m, "g", ModelKeys["g"])

RECURSIVE LoadLines(_, _)
\* loadPolicyLine of each rule read, in the order read
LoadLines(rules, mdl) ==
    IF rules = <<>> THEN mdl
    ELSE LoadLines(Tail(rules), loadPolicyLine(rules[1], mdl))

\* a plausible slip: each rule is loaded as soon as it is read
LoadedStreaming(mdl, rules, err) == LoadLines(rules, mdl)

\* a plausible slip: the model is cleared before the rules are loaded
LoadedCleared(mdl, rules, err) == IF err = "nil" THEN LoadLines(rules, EmptyModel) ELSE mdl

\* the model LoadPolicy leaves: rules are the documents read before the
\* iterator ended (err = "nil") or failed
Loaded(mdl, rules, err) == IF err = "nil" THEN LoadLines(rules, mdl) ELSE mdl

FirstCall == call.op = "none"

LoadPolicy ==
    /\ prev.op = "none"
    /\ call.op \notin {"rule", "encoded", "decoded"}
    /\ \E o \in Orders(newQuery(docs)), n \in 0..Cardinality(newQuery(docs)), err \in {"nil", "store"} :
          /\ err = "nil" => n = Len(o)
          /\ LET rules == [i \in 1..n |-> docs[o[i]]]
             IN  /\ model' = Loaded(model, rules, err)
                 /\ call' = Call("LoadPolicy", "", <<>>, EmptyModel, 0, <<>>, "", err, docs, model, n)
    /\ prev' = call
    /\ UNCHANGED <<docs, line, tx, ld>>

\* a plausible slip: every document of the collection is deleted, typed or not
SavePolicyDeletesAll(d) == DOMAIN d

\* the documents SavePolicy deletes
SavePolicyDeletes(d) == newQuery(d)

SavePolicy ==
    /\ FirstCall
    /\ \E m \in InputModels, err \in {"nil", "store"} :
          /\ docs' = IF err = "nil" THEN Commit(docs, SavePolicyDeletes(docs), SavePolicyLines(m)) ELSE docs
          /\ call' = Call("SavePolicy", "", <<>>, m, 0, <<>>, "", err, docs, model, 0)
    /\ prev' = call
    /\ UNCHANGED <<model, line, tx, ld>>

\* a plausible slip: an identical document already stored is not added again
AddPolicyLinesUnique(d, ptype, rule) ==
    IF \E id \in DOMAIN d : d[id] = savePolicyLine(ptype, rule)
    THEN <<>> ELSE <<savePolicyLine(ptype, rule)>>

\* the documents AddPolicy creates
AddPolicyLines(d, ptype, rule) == <<savePolicyLine(ptype, rule)>>

AddPolicy ==
    /\ FirstCall
    /\ \E ptype \in PTypes, rule \in InputRules, err \in {"nil", "store"} :
          /\ docs' = IF err = "nil" THEN Commit(docs, {}, AddPolicyLines(docs, ptype, rule)) ELSE docs
          /\ call' = Call("AddPolicy", ptype, rule, EmptyModel, 0, <<>>, "", err, docs, model, 0)
    /\ prev' = call
    /\ UNCHANGED <<model, line, tx, ld>>

\* a plausible slip: v5 is constrained too
RemovePolicyQueryV5(d, ptype, rule) ==
    LET l == savePolicyLine(ptype, rule)
    IN  Where(d, newQuery(d),
              {<<"p_type", l.p_type>>, <<"v0", l.v0>>, <<"v1", l.v1>>, <<"v2", l.v2>>,
               <<"v3", l.v3>>, <<"v4", l.v4>>, <<"v5", l.v5>>})

\* the documents RemovePolicy's query matches
RemovePolicyQuery(d, ptype, rule) ==
    LET l == savePolicyLine(ptype, rule)
    IN  Where(d, newQuery(d),
              {<<"p_type", l.p_type>>, <<"v0", l.v0>>, <<"v1", l.v1>>, <<"v2", l.v2>>,
               <<"v3", l.v3>>, <<"v4", l.v4>>})

RemovePolicy ==
    /\ FirstCall
    /\ \E ptype \in PTypes, rule \in InputRules, err \in {"nil", "store"} :
          /\ docs' = IF err = "nil" THEN Commit(docs, RemovePolicyQuery(docs, ptype, rule), <<>>) ELSE docs
          /\ call' = Call("RemovePolicy", ptype, rule, EmptyModel, 0, <<>>, "", err, docs, model, 0)
    /\ prev' = call
    /\ UNCHANGED <<model, line, tx, ld>>

\* a plausible slip: the value is taken at k instead of k - fieldIndex
SelectorFieldNoOffset(k, name, fieldIndex, fieldValues) ==
    IF /\ fieldIndex <= k
       /\ k < fieldIndex + Len(fieldValues)
       /\ k + 1 \in DOMAIN fieldValues
       /\ fieldValues[k + 1] # ""
    THEN {<<name, fieldValues[k + 1]>>}
    ELSE {}

\* one block of RemoveFilteredPolicy: the constraint on field k, named name
SelectorField(k, name, fieldIndex, fieldValues) ==
    IF /\ fieldIndex <= k
       /\ k < fieldIndex + Len(fieldValues)
       /\ fieldValues[k - fieldIndex + 1] # ""
    THEN {<<name, fieldValues[k - fieldIndex + 1]>>}
    ELSE {}

\* the selector RemoveFilteredPolicy builds: <<field, value>> equality constraints
Selector(ptype, fieldIndex, fieldValues) ==
    {<<"p_type", ptype>>}
    \cup SelectorField(0, "v0", fieldIndex, fieldValues)
    \cup SelectorField(1, "v1", fieldIndex, fieldValues)
    \cup SelectorField(2, "v2", fieldIndex, fieldValues)
    \cup SelectorField(3, "v3", fieldIndex, fieldValues)
    \cup SelectorField(4, "v4", fieldIndex, fieldValues)
    \cup SelectorField(5, "v5", fieldIndex, fieldValues)

\* the documents RemoveFilteredPolicy's query matches
RemoveFilteredPolicyQuery(d, ptype, fieldIndex, fieldValues) ==
    Where(d, newQuery(d), Selector(ptype, fieldIndex, fieldValues))

\* the filtered removals of the repository's tests: <<type, fieldIndex, fieldValues>>
TestFilters ==
    { <<"p", 0, <<"alice">> >>, <<"p", 1, <<"data1">> >>, <<"p", 2, <<"write">> >>,
      <<"p2", 0, <<"domain1", "", "", "read">> >>,
      <<"p2", 0, <<"domain1", "", "", "", "", "service2">> >> }

RemoveFilteredPolicy(filters) ==
    /\ FirstCall
    /\ \E f \in filters, err \in {"nil", "store"} :
          /\ docs' = IF err = "nil"
                     THEN Commit(docs, RemoveFilteredPolicyQuery(docs, f[1], f[2], f[3]), <<>>)
                     ELSE docs
          /\ call' = Call("RemoveFilteredPolicy", f[1], <<>>, EmptyModel, f[2], f[3], "", err, docs, model, 0)
    /\ prev' = call
    /\ UNCHANGED <<model, line, tx, ld>>

----------------------------------------------------------------------------
(* The model-definition document *)

\* a plausible slip: the text is stored without being validated
NewModelFromStringAny(text) == TRUE

\* whether model.NewModelFromString(text) returns no error
NewModelFromString(text) == text \in ValidTexts

\* tx.Set(ref, doc): the document is created or replaced
Set(d, id, doc) == [i \in DOMAIN d \cup {id} |-> IF i = id THEN doc ELSE d[i]]

\* what ioutil.ReadFile(path) returns: an error, or the file's text
Files == {[ok |-> FALSE, text |-> ""]} \cup {[ok |-> TRUE, text |-> t] : t \in Texts}

SaveModelWithConfig ==
    /\ FirstCall
    /\ \E f \in Files, txerr \in {"nil", "store"} :
          LET err == IF ~f.ok THEN "io"
                     ELSE IF ~NewModelFromString(f.text) THEN "invalid"
                     ELSE txerr
          IN  /\ docs' = IF err = "nil" THEN Set(docs, ConfId, ConfDoc(f.text)) ELSE docs
              /\ call' = Call("SaveModel", "", <<>>, EmptyModel, 0, <<>>, f.text, err, docs, model, 0)
    /\ prev' = call
    /\ UNCHANGED <<model, line, tx, ld>>

----------------------------------------------------------------------------
(* One caller: at most one mutating call, then the policy is loaded, and   *)
(* loaded again into the same model.                                       *)

Init ==
    /\ docs \in PriorStores
    /\ model = EmptyModel
    /\ call = NoCall
    /\ prev = NoCall
    /\ line = ZeroLine
    /\ tx = NoTx
    /\ ld = NoLoad

Next ==
    \/ LoadPolicy
    \/ SavePolicy
    \/ AddPolicy
    \/ RemovePolicy
    \/ RemoveFilteredPolicy(TestFilters)
    \/ SaveModelWithConfig

Spec == Init /\ [][Next]_vars

----------------------------------------------------------------------------
(* What the claims speak of, stated apart from the operations above *)

\* a flat record: a document with a type field
IsRecord(doc) == "p_type" \in DOMAIN doc

\* field k (0..5) of the record encode(type, rule): rule[k], or empty when unused
FieldOf(rule, k) == IF k < Len(rule) THEN rule[k + 1] ELSE ""

\* the six fields of a flat record
DocFields(doc) == <<doc.v0, doc.v1, doc.v2, doc.v3, doc.v4, doc.v5>>

\* whether doc is the record encode(ptype, rule)
IsEncoding(doc, ptype, rule) ==
    /\ IsRecord(doc)
    /\ doc.p_type = ptype
    /\ \A k \in 0..5 : DocFields(doc)[k + 1] = FieldOf(rule, k)

\* the longest prefix of s without an empty field
NonEmptyPrefix(s) ==
    LET k == CHOOSE n \in 0..Len(s) :
                 /\ \A i \in 1..n : s[i] # ""
                 /\ n = Len(s) \/ s[n + 1] = ""
    IN  SubSeq(s, 1, k)

CountSeq(s, x) == Cardinality({i \in DOMAIN s : s[i] = x})

\* the records of type key among d's documents that decode to rule x
CountStored(d, key, x) ==
    Cardinality({id \in DOMAIN d :
        IsRecord(d[id]) /\ d[id].p_type = key /\ NonEmptyPrefix(DocFields(d[id])) = x})

\* the rules of model m that encode(key, .) takes to the record doc
CountEncoded(m, key, doc) ==
    Cardinality({i \in DOMAIN m[FirstChar[key]][key] :
        IsEncoding(doc, key, m[FirstChar[key]][key][i])})

\* every rule of m has 1 to 6 fields, none empty
WellFormed(m) ==
    \A sec \in Sections : \A key \in ModelDef[sec] : \A i \in DOMAIN m[sec][key] :
        /\ Len(m[sec][key][i]) \in 1..6
        /\ NonEmptyFields(m[sec][key][i])

\* every rule that occurs in model a or model b
RulesIn(a, b) ==
    UNION {Range(a[FirstChar[key]][key]) \cup Range(b[FirstChar[key]][key]) : key \in PTypes}

Done(c, op) == c.op = op /\ c.err = "nil"

----------------------------------------------------------------------------
(* Claims on single calls and on a call followed by LoadPolicy *)

\* C1: after a successful SavePolicy(m), m's rules having 1 to 6 non-empty
\* fields each, whatever the collection held before, a successful LoadPolicy
\* into an empty model yields for every policy type exactly m's set of rules.
C1_SaveThenLoad ==
    (/\ Done(call, "LoadPolicy") /\ call.model0 = EmptyModel
     /\ Done(prev, "SavePolicy") /\ WellFormed(prev.m)) =>
        \A sec \in Sections : \A key \in ModelDef[sec] :
            Range(model[sec][key]) = Range(prev.m[sec][key])

\* a model of two rules, one of six fields, was saved over a collection that
\* held other records and loaded back
C1_Witness ==
    /\ Done(call, "LoadPolicy") /\ call.model0 = EmptyModel
    /\ Done(prev, "SavePolicy") /\ WellFormed(prev.m)
    /\ prev.m["p"]["p2"] = <<RuleService>>
    /\ prev.m["g"]["g"] = <<RuleGroup>>
    /\ \E id \in DOMAIN prev.docs0 : IsRecord(prev.docs0[id]) /\ prev.docs0[id].p_type = "p"
    /\ model["p"]["p2"] = <<RuleService>>
    /\ model["p"]["p"] = <<>>

\* C2 as stated: after a successful SavePolicy(m) no document that was in the
\* collection remains, and the collection holds exactly one record
\* encode(type, rule) per rule of m.
C2_EveryDocumentReplaced ==
    Done(call, "SavePolicy") =>
        /\ DOMAIN call.docs0 \cap DOMAIN docs = {}
        /\ \A id \in DOMAIN docs :
              /\ IsRecord(docs[id]) /\ docs[id].p_type \in PTypes
              /\ Cardinality({j \in DOMAIN docs : IsRecord(docs[j]) /\ docs[j] = docs[id]})
                     = CountEncoded(call.m, docs[id].p_type, docs[id])
        /\ \A sec \in Sections : \A key \in ModelDef[sec] : \A i \in DOMAIN call.m[sec][key] :
              \E id \in DOMAIN docs : IsEncoding(docs[id], key, call.m[sec][key][i])

\* C2 amended: after a successful SavePolicy(m) no record with a non-empty
\* type that was in the collection remains; a document without a type field
\* (the model definition "conf") stays as it was; and the records created
\* are exactly one encode(type, rule) per rule of m.
C2_FullReplaceOfRecords ==
    Done(call, "SavePolicy") =>
        /\ \A id \in DOMAIN call.docs0 :
              IF IsRecord(call.docs0[id]) /\ call.docs0[id].p_type # ""
              THEN id \notin DOMAIN docs
              ELSE id \in DOMAIN docs /\ docs[id] = call.docs0[id]
        /\ \A id \in DOMAIN docs \ DOMAIN call.docs0 :
              /\ IsRecord(docs[id]) /\ docs[id].p_type \in PTypes
              /\ Cardinality({j \in DOMAIN docs \ DOMAIN call.docs0 : docs[j] = docs[id]})
                     = CountEncoded(call.m, docs[id].p_type, docs[id])
        /\ \A sec \in Sections : \A key \in ModelDef[sec] : \A i \in DOMAIN call.m[sec][key] :
              \E id \in DOMAIN docs \ DOMAIN call.docs0 :
                  IsEncoding(docs[id], key, call.m[sec][key][i])

\* a model holding the same rule twice was saved over a collection that held
\* two records and the model definition: the records are gone, the model
\* definition is still there, two new equal records exist
C2_Witness ==
    /\ Done(call, "SavePolicy")
    /\ call.m["p"]["p"] = <<RuleAlice, RuleAlice>>
    /\ ConfId \in DOMAIN call.docs0
    /\ Cardinality(DOMAIN call.docs0) = 3
    /\ DOMAIN docs \cap DOMAIN call.docs0 = {ConfId}
    /\ Cardinality(DOMAIN docs) = 3

\* C4: a successful RemovePolicy(sec, type, rule) deletes every record whose
\* type is type and whose field0..field4 are those of encode(type, rule),
\* unused fields being empty and field5 being free; every other document
\* stays as it was, none is created, and with no match nothing changes.
C4_RemovePolicy ==
    Done(call, "RemovePolicy") =>
        /\ DOMAIN docs \subseteq DOMAIN call.docs0
        /\ \A id \in DOMAIN call.docs0 :
              IF /\ IsRecord(call.docs0[id])
                 /\ call.docs0[id].p_type = call.ptype
                 /\ \A k \in 0..4 : DocFields(call.docs0[id])[k + 1] = FieldOf(call.rule, k)
              THEN id \notin DOMAIN docs
              ELSE id \in DOMAIN docs /\ docs[id] = call.docs0[id]

\* removing a five-field rule deleted two equal six-field records that
\* differ from it in field5 only
C4_Witness ==
    /\ Done(call, "RemovePolicy")
    /\ call.ptype = "p2" /\ call.rule = RuleNoService
    /\ Cardinality({id \in DOMAIN call.docs0 : IsEncoding(call.docs0[id], "p2", RuleService)}) = 2
    /\ \A id \in DOMAIN docs : ~IsRecord(docs[id])

\* a successful RemovePolicy that matched nothing left the collection as it was
C4_WitnessNoMatch ==
    /\ Done(call, "RemovePolicy")
    /\ call.ptype = "g"
    /\ Cardinality(DOMAIN call.docs0) = 2
    /\ docs = call.docs0

\* C5 as stated: a successful AddPolicy(sec, type, rule) creates exactly one
\* record encode(type, rule), leaves every document as it was, and a later
\* successful LoadPolicy into an empty model returns the rules stored before
\* plus the added rule.
C5_LoadReturnsAddedRule ==
    /\ Done(call, "AddPolicy") =>
          /\ \E id \in DOMAIN docs \ DOMAIN call.docs0 :
                /\ DOMAIN docs = DOMAIN call.docs0 \cup {id}
                /\ IsEncoding(docs[id], call.ptype, call.rule)
          /\ \A id \in DOMAIN call.docs0 : docs[id] = call.docs0[id]
    /\ (Done(call, "LoadPolicy") /\ call.model0 = EmptyModel /\ Done(prev, "AddPolicy")) =>
          \A sec \in Sections : \A key \in ModelDef[sec] :
              \A x \in RulesIn(model, model) \cup {prev.rule} :
                  CountSeq(model[sec][key], x) =
                      CountStored(prev.docs0, key, x)
                      + (IF key = prev.ptype /\ x = prev.rule THEN 1 ELSE 0)

\* C5 amended: as stated, except that the later LoadPolicy returns the rules
\* stored before plus the added rule as decoded, that is, its fields up to
\* the first empty one (the rule itself when none of its fields is empty).
C5_AddPolicy ==
    /\ Done(call, "AddPolicy") =>
          /\ \E id \in DOMAIN docs \ DOMAIN call.docs0 :
                /\ DOMAIN docs = DOMAIN call.docs0 \cup {id}
                /\ IsEncoding(docs[id], call.ptype, call.rule)
          /\ \A id \in DOMAIN call.docs0 : docs[id] = call.docs0[id]
    /\ (Done(call, "LoadPolicy") /\ call.model0 = EmptyModel /\ Done(prev, "AddPolicy")) =>
          \A sec \in Sections : \A key \in ModelDef[sec] :
              \A x \in RulesIn(model, model) \cup {prev.rule, NonEmptyPrefix(prev.rule)} :
                  CountSeq(model[sec][key], x) =
                      CountStored(prev.docs0, key, x)
                      + (IF key = prev.ptype /\ x = NonEmptyPrefix(prev.rule) THEN 1 ELSE 0)

\* a rule was added to a collection that already held an identical record,
\* and the load that followed returned it twice
C5_Witness ==
    /\ Done(call, "LoadPolicy") /\ call.model0 = EmptyModel
    /\ Done(prev, "AddPolicy") /\ prev.ptype = "p" /\ prev.rule = RuleAlice
    /\ \E id \in DOMAIN prev.docs0 : IsEncoding(prev.docs0[id], "p", RuleAlice)
    /\ CountSeq(model["p"]["p"], RuleAlice) = 2

\* C8: a successful LoadPolicy keeps every rule the model held, in place,
\* and appends one decoded rule per stored record to model[section][type];
\* loading twice into the same model leaves every stored rule there twice.
C8_LoadIsAdditive ==
    Done(call, "LoadPolicy") =>
        \A sec \in Sections : \A key \in ModelDef[sec] :
            /\ Len(call.model0[sec][key]) <= Len(model[sec][key])
            /\ SubSeq(model[sec][key], 1, Len(call.model0[sec][key])) = call.model0[sec][key]
            /\ \A x \in RulesIn(model, call.model0) :
                  /\ CountSeq(model[sec][key], x) =
                        CountSeq(call.model0[sec][key], x) + CountStored(docs, key, x)
                  /\ (Done(prev, "LoadPolicy") /\ prev.model0 = EmptyModel) =>
                        CountSeq(model[sec][key], x) = 2 * CountStored(docs, key, x)

\* the policy was loaded twice into the same model from a collection of two
\* records: each rule is there twice
C8_Witness ==
    /\ Done(call, "LoadPolicy") /\ Done(prev, "LoadPolicy")
    /\ prev.model0 = EmptyModel
    /\ Len(call.model0["p"]["p"]) = 1 /\ Len(call.model0["p"]["p2"]) = 1
    /\ CountSeq(model["p"]["p"], RuleAlice) = 2
    /\ CountSeq(model["p"]["p2"], RuleService) = 2

\* C9: saving a model definition whose text does not parse returns an error
\* and writes nothing: the collection, with the definition saved before or
\* without one, is as it was.
C9_InvalidModelNotSaved ==
    (call.op = "SaveModel" /\ call.text \in Texts \ ValidTexts) =>
        /\ call.err # "nil"
        /\ docs = call.docs0

\* an invalid text was refused while a definition saved before was in place
C9_Witness ==
    /\ call.op = "SaveModel"
    /\ call.text = "rbac_policy.csv"
    /\ call.err = "invalid"
    /\ ConfId \in DOMAIN docs
    /\ docs[ConfId] = ConfDoc("rbac_model.conf")

\* C10: when reading or decoding a record fails, LoadPolicy returns the
\* error and the caller's model is as it was before the call, whatever the
\* number of records read before the failure.
C10_FailedLoadKeepsModel ==
    (call.op = "LoadPolicy" /\ call.err # "nil") => model = call.model0

\* a load failed after reading one record, into a model that held rules
C10_Witness ==
    /\ call.op = "LoadPolicy" /\ call.err # "nil"
    /\ call.read = 1
    /\ Done(prev, "LoadPolicy")
    /\ Len(call.model0["p"]["p"]) = 2
    /\ model = call.model0

----------------------------------------------------------------------------
(* RemoveFilteredPolicy alone, over every window position *)

RuleService2 == <<"domain1", "alice", "data3", "write", "accept", "service2">>

FilterLines ==
    << savePolicyLine("p2", RuleService), savePolicyLine("p2", RuleService2),
       savePolicyLine("p", RuleAlice), savePolicyLine("p", RuleGap) >>

FilterValues == {"", "alice", "read"}

FieldIndexes == -2..6

WideFilters ==
    {<<t, i, v>> : t \in PTypes, i \in FieldIndexes, v \in SeqsUpTo(FilterValues, MaxFilterLen)}
    \cup TestFilters

InitFilter ==
    /\ docs \in Stores(FilterLines)
    /\ model = EmptyModel
    /\ call = NoCall
    /\ prev = NoCall
    /\ line = ZeroLine
    /\ tx = NoTx
    /\ ld = NoLoad

NextFilter == RemoveFilteredPolicy(WideFilters)

SpecFilter == InitFilter /\ [][NextFilter]_vars

\* C3: a successful RemoveFilteredPolicy(sec, type, fieldIndex, fieldValues)
\* deletes exactly the records of that type whose field k equals
\* fieldValues[k - fieldIndex] for every k in 0..5 inside the window
\* fieldIndex <= k < fieldIndex + len(fieldValues) whose value is not empty
\* (a negative fieldIndex uses the in-range suffix of fieldValues); every
\* other document stays as it was, and with no match nothing changes.
C3_RemoveFilteredPolicy ==
    Done(call, "RemoveFilteredPolicy") =>
        /\ DOMAIN docs \subseteq DOMAIN call.docs0
        /\ \A id \in DOMAIN call.docs0 :
              IF /\ IsRecord(call.docs0[id])
                 /\ call.docs0[id].p_type = call.ptype
                 /\ \A k \in 0..5 :
                       (/\ call.fieldIndex <= k
                        /\ k < call.fieldIndex + Len(call.fieldValues)
                        /\ call.fieldValues[k - call.fieldIndex + 1] # "")
                       => DocFields(call.docs0[id])[k + 1] = call.fieldValues[k - call.fieldIndex + 1]
              THEN id \notin DOMAIN docs
              ELSE id \in DOMAIN docs /\ docs[id] = call.docs0[id]

\* with fieldIndex = -1 and values <<"read", "alice">> only field0 = "alice"
\* was required: the record of type p was deleted, the one of type p2 and
\* the model definition stayed
C3_Witness ==
    /\ Done(call, "RemoveFilteredPolicy")
    /\ call.ptype = "p" /\ call.fieldIndex = -1 /\ call.fieldValues = <<"read", "alice">>
    /\ Cardinality(DOMAIN call.docs0) = 3
    /\ \E id \in DOMAIN call.docs0 : IsEncoding(call.docs0[id], "p", RuleAlice)
    /\ \E id \in DOMAIN docs : IsEncoding(docs[id], "p2", RuleService)
    /\ DOMAIN docs = {ConfId} \cup {id \in DOMAIN call.docs0 : IsEncoding(call.docs0[id], "p2", RuleService)}

\* the filter of the tests with empty values in the middle deleted the one
\* record whose field0 and field5 matched
C3_WitnessWildcard ==
    /\ Done(call, "RemoveFilteredPolicy")
    /\ call.fieldValues = <<"domain1", "", "", "", "", "service2">>
    /\ \E id \in DOMAIN call.docs0 : IsEncoding(call.docs0[id], "p2", RuleService)
    /\ \E id \in DOMAIN call.docs0 \ DOMAIN docs : IsEncoding(call.docs0[id], "p2", RuleService2)
    /\ \E id \in DOMAIN docs : IsEncoding(docs[id], "p2", RuleService)

----------------------------------------------------------------------------
(* One mutating call and one LoadPolicy running concurrently.  The         *)
(* transaction function runs step by step: each tx.Delete and tx.Create is *)
(* buffered, the commit applies them together.  LoadPolicy makes its query *)
(* outside any transaction and then walks the iterator.                    *)

ConcLines == << savePolicyLine("p", RuleAlice), savePolicyLine("p2", RuleService) >>

ConcInputLines == << <<"p", RuleAlice>>, <<"p", RuleBob>>, <<"p2", RuleNoService>> >>

ConcModels ==
    {ModelOf([i \in DOMAIN s |-> ConcInputLines[s[i]]]) :
        s \in NonDecreasing(Len(ConcInputLines), MaxRules)}

InitConc ==
    /\ docs \in Stores(ConcLines)
    /\ model = EmptyModel
    /\ call = NoCall
    /\ prev = NoCall
    /\ line = ZeroLine
    /\ tx = NoTx
    /\ ld = NoLoad

\* RunTransaction calls the function: ids are the documents its query
\* matches, lines the documents it will create
Begin(op, ptype, rule, m, fieldIndex, fieldValues, ids, lines) ==
    /\ tx.pc = "none"
    /\ tx' = [pc |-> "run", iter |-> ids, lines |-> lines, dels |-> {}, creates |-> <<>>]
    /\ call' = Call(op, ptype, rule, m, fieldIndex, fieldValues, "", "nil", docs, model, 0)
    /\ UNCHANGED <<docs, model, prev, line, ld>>

BeginSavePolicy ==
    \E m \in ConcModels :
        Begin("SavePolicy", "", <<>>, m, 0, <<>>, SavePolicyDeletes(docs), SavePolicyLines(m))

BeginAddPolicy ==
    \E i \in DOMAIN ConcInputLines :
        Begin("AddPolicy", ConcInputLines[i][1], ConcInputLines[i][2], EmptyModel, 0, <<>>,
              {}, AddPolicyLines(docs, ConcInputLines[i][1], ConcInputLines[i][2]))

BeginRemovePolicy ==
    \E i \in DOMAIN ConcInputLines :
        Begin("RemovePolicy", ConcInputLines[i][1], ConcInputLines[i][2], EmptyModel, 0, <<>>,
              RemovePolicyQuery(docs, ConcInputLines[i][1], ConcInputLines[i][2]), <<>>)

BeginRemoveFilteredPolicy ==
    \E f \in TestFilters :
        Begin("RemoveFilteredPolicy", f[1], <<>>, EmptyModel, f[2], f[3],
              RemoveFilteredPolicyQuery(docs, f[1], f[2], f[3]), <<>>)

\* a plausible slip: the document is deleted at once, outside the transaction
DeletedAtOnce(d, id) == [i \in DOMAIN d \ {id} |-> d[i]]

\* the collection as others see it after tx.Delete(doc.Ref): unchanged until the commit
TxDeleted(d, id) == d

\* iter.Next() delivers a document and tx.Delete buffers its deletion
TxDelete ==
    /\ tx.pc = "run"
    /\ \E id \in tx.iter :
          /\ tx' = [tx EXCEPT !.iter = @ \ {id}, !.dels = @ \cup {id}]
          /\ docs' = TxDeleted(docs, id)
    /\ UNCHANGED <<model, call, prev, line, ld>>

\* tx.Create(policies.NewDoc(), line) buffers the creation of the next line
TxCreate ==
    /\ tx.pc = "run"
    /\ tx.iter = {}
    /\ tx.lines # <<>>
    /\ tx' = [tx EXCEPT !.lines = Tail(@), !.creates = Append(@, Head(tx.lines))]
    /\ UNCHANGED <<docs, model, call, prev, line, ld>>

\* the function returned nil and the commit succeeds: every buffered write is applied
TxCommit ==
    /\ tx.pc = "run"
    /\ tx.iter = {}
    /\ tx.lines = <<>>
    /\ docs' = Commit(docs, tx.dels, tx.creates)
    /\ tx' = [tx EXCEPT !.pc = "committed"]
    /\ UNCHANGED <<model, call, prev, line, ld>>

\* iter.Next, tx.Delete, tx.Create or the commit returns an error: the
\* transaction is rolled back and the call returns the error
TxFail ==
    /\ tx.pc = "run"
    /\ tx' = [tx EXCEPT !.pc = "failed"]
    /\ call' = [call EXCEPT !.err = "store"]
    /\ UNCHANGED <<docs, model, prev, line, ld>>

\* query.Documents(ctx) and the first iter.Next(): the query reads the collection
LoadQuery ==
    /\ ld.pc = "none"
    /\ ld' = [pc |-> "iter", left |-> newQuery(docs), snap |-> docs, rules |-> <<>>,
              at |-> tx.pc, writes |-> Cardinality(tx.dels) + Len(tx.creates)]
    /\ UNCHANGED <<docs, model, call, prev, line, tx>>

\* iter.Next() delivers a document, doc.DataTo decodes it, the rule is appended to rules
LoadNext ==
    /\ ld.pc = "iter"
    /\ \E id \in ld.left :
          ld' = [ld EXCEPT !.left = @ \ {id}, !.rules = Append(@, ld.snap[id])]
    /\ UNCHANGED <<docs, model, call, prev, line, tx>>

\* iter.Next() or doc.DataTo returns an error: LoadPolicy returns it
LoadFail ==
    /\ ld.pc = "iter"
    /\ ld' = [ld EXCEPT !.pc = "failed"]
    /\ model' = Loaded(model, ld.rules, "store")
    /\ UNCHANGED <<docs, call, prev, line, tx>>

\* iter.Next() returns iterator.Done: every rule read is loaded into the model
LoadFinish ==
    /\ ld.pc = "iter"
    /\ ld.left = {}
    /\ ld' = [ld EXCEPT !.pc = "done"]
    /\ model' = Loaded(model, ld.rules, "nil")
    /\ UNCHANGED <<docs, call, prev, line, tx>>

NextConc ==
    \/ BeginSavePolicy
    \/ BeginAddPolicy
    \/ BeginRemovePolicy
    \/ BeginRemoveFilteredPolicy
    \/ TxDelete
    \/ TxCreate
    \/ TxCommit
    \/ TxFail
    \/ LoadQuery
    \/ LoadNext
    \/ LoadFail
    \/ LoadFinish

SpecConc == InitConc /\ [][NextConc]_vars

\* the model holds exactly the decoded records of collection d
Observes(d) ==
    \A key \in PTypes : \A x \in RulesIn(model, model) \cup {NonEmptyPrefix(DocFields(d[id])) : id \in {i \in DOMAIN d : IsRecord(d[i])}} :
        CountSeq(model[FirstChar[key]][key], x) = CountStored(d, key, x)

\* C7: a LoadPolicy that runs concurrently with one SavePolicy, AddPolicy,
\* RemovePolicy or RemoveFilteredPolicy call loads either the complete
\* record set from before that call or the complete record set from after
\* it; until the call's transaction commits the collection is as it was
\* before the call, and it stays so when the call fails.
C7_AtomicVisibility ==
    /\ tx.pc \in {"run", "failed"} => docs = call.docs0
    /\ ld.pc = "done" =>
          \/ Observes(IF tx.pc = "none" THEN docs ELSE call.docs0)
          \/ tx.pc = "committed" /\ Observes(docs)

\* a LoadPolicy made its query while SavePolicy's transaction had buffered
\* deletes and creates, and loaded the two records from before the call,
\* not the one record the committed call left
C7_Witness ==
    /\ ld.pc = "done"
    /\ ld.at = "run" /\ ld.writes >= 2
    /\ call.op = "SavePolicy"
    /\ tx.pc = "committed"
    /\ Cardinality({id \in DOMAIN call.docs0 : IsRecord(call.docs0[id])}) = 2
    /\ Cardinality({id \in DOMAIN docs : IsRecord(docs[id])}) = 1
    /\ Observes(call.docs0)
    /\ ~Observes(docs)

\* a LoadPolicy that made its query after the commit loaded the record set
\* the call left
C7_WitnessAfter ==
    /\ ld.pc = "done"
    /\ ld.at = "committed"
    /\ call.op = "SavePolicy"
    /\ Observes(docs)
    /\ ~Observes(call.docs0)

\* a failed call left the collection as it was, after buffering writes
C7_WitnessFailed ==
    /\ tx.pc = "failed"
    /\ tx.dels # {}
    /\ tx.creates # <<>>
    /\ docs = call.docs0

=============================================================================
